---- MODULE Spec2Model ----
(***************************************************************************)
(* Model of the hardware layer of chipurobo:                               *)
(*   chipurobo/hardware/encoders.py  (class MotorEncoder)                  *)
(*   chipurobo/hardware/motors.py    (class L298NMotorDriver)              *)
(*                                                                         *)
(* Python floats are modelled as exact rationals <<numerator,denominator>> *)
(* (denominator > 0, lowest terms); rounding is not modelled.  Lengths     *)
(* that carry the factor math.pi (circumference, distance, velocity) are   *)
(* stored as the rational coefficient of pi.  Time is counted in           *)
(* milliseconds.                                                           *)
(***************************************************************************)
EXTENDS Integers, Sequences, FiniteSets, TLC

\* ------------------------------------------------------------------ bounds
\* Number of edge callbacks the hardware layer delivers in one run.
MaxEdges == 2
\* Number of clock ticks (1 ms each) in one run.
MaxTime == 2

\* ------------------------------------------------------------- rationals
Abs(x) == IF x < 0 THEN -x ELSE x

RECURSIVE GCD(_, _)
GCD(a, b) == IF b = 0 THEN a ELSE GCD(b, a % b)

\* n/d in lowest terms with a positive denominator (d # 0)
Rat(n, d) ==
    LET g == GCD(Abs(n), Abs(d))
        s == IF d < 0 THEN -1 ELSE 1
    IN  <<(s * n) \div g, (s * d) \div g>>

RatOfInt(i) == <<i, 1>>
RatAdd(x, y) == Rat(x[1] * y[2] + y[1] * x[2], x[2] * y[2])
RatSub(x, y) == Rat(x[1] * y[2] - y[1] * x[2], x[2] * y[2])
RatMul(x, y) == Rat(x[1] * y[1], x[2] * y[2])
RatDiv(x, y) == Rat(x[1] * y[2], x[2] * y[1])
RatNeg(x) == <<-x[1], x[2]>>
RatAbs(x) == <<Abs(x[1]), x[2]>>
RatLT(x, y) == x[1] * y[2] < y[1] * x[2]
RatLE(x, y) == x[1] * y[2] <= y[1] * x[2]
RatMax(x, y) == IF RatLT(x, y) THEN y ELSE x
RatMin(x, y) == IF RatLT(y, x) THEN y ELSE x
RatZero == RatOfInt(0)
RatOne == RatOfInt(1)

\* ===================================================================
\*                      MotorEncoder  (encoders.py)
\* ===================================================================

\* Callback contexts of the GPIO library, and a thread that uses the API.
Callbacks == {"cb1", "cb2"}
Users == {"user"}
EThreads == Callbacks \cup Users
NoThread == "free"

\* Constructor arguments (pulses_per_revolution, wheel_diameter, gear_ratio).
\* The defaults (11, 4.0, 1.0) and a geared motor with a smaller wheel.
Geometries == {<<11, Rat(4, 1), Rat(1, 1)>>, <<20, Rat(5, 2), Rat(30, 1)>>}

\* How construction went: gpiozero imported and both Buttons created; the
\* import failed; Button(pin_a) raised; Button(pin_b) raised.
EncoderSetups == {"ok", "noimport", "fail_a", "fail_b"}

\* "if dt > 0.001", in milliseconds
VelocityMinDtMs == 1

VARIABLES
    enc_rpi,        \* encoders.RPI_AVAILABLE
    chan,           \* channel_a / channel_b: "none" (no attribute), "open", "closed"
    geom,           \* ppr, wheel_diameter, gear_ratio, wheel_circumference
    count,          \* self.count
    count_lock,     \* holder of self.count_lock, or NoThread
    last_time,      \* self.last_time (ms)
    velocity,       \* self.velocity (coefficient of pi, inches/second)
    active,         \* self.active
    now,            \* time.time() (ms)
    epc,            \* position of every thread
    eloc,           \* locals of every thread
    egh             \* history: edges delivered / applied, reset and cleanup marks

evars == <<enc_rpi, chan, geom, count, count_lock, last_time, velocity, active,
           now, epc, eloc, egh>>

\* state of the motor driver (motors.py)
VARIABLES
    mot_rpi,        \* motors.RPI_AVAILABLE
    initialized,    \* self.initialized
    dev,            \* per device: "none" (None / no attribute), "open", "closed"
    pin,            \* level driven on the four direction pins
    duty,           \* value of the two PWM devices
    mpc,            \* position of every caller
    mcall,          \* the set_motor_speed call in progress
    mtodo,          \* set_motor_speed calls the running operation still makes
    mgh             \* history of the running / last operation of a caller

mvars == <<mot_rpi, initialized, dev, pin, duty, mpc, mcall, mtodo, mgh>>
vars == <<evars, mvars>>

NoLocals == [current_time |-> 0, dt |-> 0, pin_a_state |-> FALSE,
             pin_b_state |-> FALSE, tmp |-> 0, late |-> FALSE, at_lock |-> 0,
             inflight |-> FALSE]

\* math.pi * wheel_diameter, as a coefficient of pi
Circumference(d) == d

EncoderConstructed(setup, ppr, wd, gr) ==
    /\ enc_rpi = (setup # "noimport")
    /\ chan = [c \in {"a", "b"} |->
                 IF setup = "ok" \/ (setup = "fail_b" /\ c = "a")
                 THEN "open" ELSE "none"]
    /\ geom = [ppr |-> ppr, wheel_diameter |-> wd, gear_ratio |-> gr,
               wheel_circumference |-> Circumference(wd)]
    /\ count = 0
    /\ count_lock = NoThread
    /\ last_time = 0
    /\ velocity = RatZero
    /\ active = (setup = "ok")
    /\ now = 0
    /\ epc = [t \in EThreads |-> "idle"]
    /\ eloc = [t \in EThreads |-> NoLocals]
    /\ egh = [delivered |-> 0, fwd |-> 0, bwd |-> 0, reset_done |-> FALSE,
              sign_before_reset |-> 0, detached |-> FALSE]

EncInit ==
    \E setup \in EncoderSetups, g \in Geometries :
       EncoderConstructed(setup, g[1], g[2], g[3])

\* ---- the lock ----------------------------------------------------------
\* faulty variant: a lock that excludes nobody
NeverExcludes(t) == TRUE
\* threading.Lock: acquire blocks while another thread holds it
CanAcquire(t) == count_lock = NoThread

\* ---- gpiozero Button(pull_up=True) -------------------------------------
\* is_pressed is True when the pin is pulled low (lv: TRUE = high)
IsPressed(lv) == ~lv
\* "not self.channel_x.is_pressed"
PinState(lv) == ~IsPressed(lv)

\* ---- _process_encoder_pulse, lines 77-101 ------------------------------
\* faulty variant: channel B is ignored
AlwaysForward(a, b) == 1
\* lines 91-94: +1 when the two sampled states are equal, else -1
Direction(a, b) == IF a = b THEN 1 ELSE -1

\* faulty variant: the velocity is recomputed on every edge
UpdatesAlways(dt) == TRUE
\* line 97
ShouldUpdateVelocity(dt) == dt > VelocityMinDtMs

\* lines 98-99: pulse_rate = 1.0 / dt ; (pulse_rate / ppr) * circumference
VelocityFor(dt) ==
    RatMul(RatDiv(Rat(1000, dt), RatOfInt(geom.ppr)), geom.wheel_circumference)

\* faulty variant: the active flag is not consulted
IgnoresActive == TRUE
\* lines 79-80: the callback goes on only while self.active is set
PassesActiveCheck == active

Return(t) ==
    /\ epc' = [epc EXCEPT ![t] = "idle"]
    /\ eloc' = [eloc EXCEPT ![t] = NoLocals]

\* The hardware layer (or a caller) invokes one of the two edge callbacks.
EdgeDelivered(t) ==
    /\ epc[t] = "idle"
    /\ egh.delivered < MaxEdges
    /\ epc' = [epc EXCEPT ![t] = "check"]
    /\ eloc' = [eloc EXCEPT ![t].late = egh.detached]
    /\ egh' = [egh EXCEPT !.delivered = @ + 1]
    /\ UNCHANGED <<enc_rpi, chan, geom, count, count_lock, last_time, velocity,
                   active, now>>
    /\ UNCHANGED mvars

EdgeCheckActive(t) ==
    /\ epc[t] = "check"
    /\ IF PassesActiveCheck
       THEN /\ epc' = [epc EXCEPT ![t] = "time"]
            /\ UNCHANGED eloc
       ELSE Return(t)
    /\ UNCHANGED <<enc_rpi, chan, geom, count, count_lock, last_time, velocity,
                   active, now, egh>>
    /\ UNCHANGED mvars

\* line 82
EdgeReadClock(t) ==
    /\ epc[t] = "time"
    /\ eloc' = [eloc EXCEPT ![t].current_time = now]
    /\ epc' = [epc EXCEPT ![t] = "dt"]
    /\ UNCHANGED <<enc_rpi, chan, geom, count, count_lock, last_time, velocity,
                   active, now, egh>>
    /\ UNCHANGED mvars

\* line 83
EdgeElapsed(t) ==
    /\ epc[t] = "dt"
    /\ eloc' = [eloc EXCEPT ![t].dt = eloc[t].current_time - last_time]
    /\ epc' = [epc EXCEPT ![t] = "acquire"]
    /\ UNCHANGED <<enc_rpi, chan, geom, count, count_lock, last_time, velocity,
                   active, now, egh>>
    /\ UNCHANGED mvars

\* line 85
EdgeAcquire(t) ==
    /\ epc[t] = "acquire"
    /\ CanAcquire(t)
    /\ count_lock' = t
    /\ epc' = [epc EXCEPT ![t] = "read_a"]
    /\ UNCHANGED <<enc_rpi, chan, geom, count, last_time, velocity, active, now,
                   eloc, egh>>
    /\ UNCHANGED mvars

\* lines 87-88: the level of the pin at this instant is whatever the
\* hardware drives.  Reading a closed gpiozero device raises DeviceClosed; the
\* with-block releases the lock and the exception leaves the callback.
EdgeReadPin(t, c, next) ==
    /\ IF chan[c] = "open"
       THEN /\ \E lv \in BOOLEAN :
                  eloc' = [eloc EXCEPT ![t] =
                             IF c = "a"
                             THEN [@ EXCEPT !.pin_a_state = PinState(lv)]
                             ELSE [@ EXCEPT !.pin_b_state = PinState(lv)]]
            /\ epc' = [epc EXCEPT ![t] = next]
            /\ UNCHANGED count_lock
       ELSE /\ count_lock' = NoThread
            /\ Return(t)
    /\ UNCHANGED <<enc_rpi, chan, geom, count, last_time, velocity, active, now,
                   egh>>
    /\ UNCHANGED mvars

EdgeReadA(t) ==
    /\ epc[t] = "read_a"
    /\ EdgeReadPin(t, "a", "read_b")

EdgeReadB(t) ==
    /\ epc[t] = "read_b"
    /\ EdgeReadPin(t, "b", "load")

\* lines 92/94, first half of "self.count += d": read the attribute
EdgeLoadCount(t) ==
    /\ epc[t] = "load"
    /\ eloc' = [eloc EXCEPT ![t].tmp = count]
    /\ epc' = [epc EXCEPT ![t] = "store"]
    /\ UNCHANGED <<enc_rpi, chan, geom, count, count_lock, last_time, velocity,
                   active, now, egh>>
    /\ UNCHANGED mvars

\* lines 92/94, second half: write the attribute
EdgeStoreCount(t) ==
    /\ epc[t] = "store"
    /\ LET d == Direction(eloc[t].pin_a_state, eloc[t].pin_b_state)
       IN  /\ count' = eloc[t].tmp + d
           /\ egh' = IF eloc[t].pin_a_state = eloc[t].pin_b_state
                     THEN [egh EXCEPT !.fwd = @ + 1]
                     ELSE [egh EXCEPT !.bwd = @ + 1]
    /\ epc' = [epc EXCEPT ![t] = "vel"]
    /\ eloc' = [eloc EXCEPT ![t].pin_a_state = FALSE, ![t].pin_b_state = FALSE,
                            ![t].tmp = 0]
    /\ UNCHANGED <<enc_rpi, chan, geom, count_lock, last_time, velocity, active, now>>
    /\ UNCHANGED mvars

\* lines 97-99 and the end of the with-block
EdgeVelocity(t) ==
    /\ epc[t] = "vel"
    /\ velocity' = IF ShouldUpdateVelocity(eloc[t].dt)
                   THEN VelocityFor(eloc[t].dt) ELSE velocity
    /\ count_lock' = NoThread
    /\ epc' = [epc EXCEPT ![t] = "stamp"]
    /\ eloc' = [eloc EXCEPT ![t].dt = 0]
    /\ UNCHANGED <<enc_rpi, chan, geom, count, last_time, active, now, egh>>
    /\ UNCHANGED mvars

\* line 101
EdgeStamp(t) ==
    /\ epc[t] = "stamp"
    /\ last_time' = eloc[t].current_time
    /\ Return(t)
    /\ UNCHANGED <<enc_rpi, chan, geom, count, count_lock, velocity, active, now,
                   egh>>
    /\ UNCHANGED mvars

\* ---- get_count, lines 113-116 ------------------------------------------
GetCountAcquire(t) ==
    /\ epc[t] = "idle"
    /\ CanAcquire(t)
    /\ count_lock' = t
    /\ epc' = [epc EXCEPT ![t] = "get_count"]
    /\ UNCHANGED <<enc_rpi, chan, geom, count, last_time, velocity, active, now,
                   eloc, egh>>
    /\ UNCHANGED mvars

\* what "return self.count" returns when it is executed in this state
GetCountResult == count

GetCountReturn(t) ==
    /\ epc[t] = "get_count"
    /\ count_lock' = NoThread
    /\ Return(t)
    /\ UNCHANGED <<enc_rpi, chan, geom, count, last_time, velocity, active, now,
                   egh>>
    /\ UNCHANGED mvars

\* ---- get_distance, lines 103-107 ---------------------------------------
\* faulty variant: the gear ratio is folded into the distance
DistanceWithGearRatio(c) ==
    RatDiv(RatMul(Rat(c, geom.ppr), geom.wheel_circumference), geom.gear_ratio)
\* revolutions = count / ppr ; revolutions * wheel_circumference
DistanceFor(c) == RatMul(Rat(c, geom.ppr), geom.wheel_circumference)

GetDistanceAcquire(t) ==
    /\ epc[t] = "idle"
    /\ CanAcquire(t)
    /\ count_lock' = t
    /\ epc' = [epc EXCEPT ![t] = "get_distance"]
    /\ eloc' = [eloc EXCEPT ![t].at_lock = count]
    /\ UNCHANGED <<enc_rpi, chan, geom, count, last_time, velocity, active, now,
                   egh>>
    /\ UNCHANGED mvars

\* what get_distance returns when lines 106-107 are executed in this state
GetDistanceResult == DistanceFor(count)

GetDistanceReturn(t) ==
    /\ epc[t] = "get_distance"
    /\ count_lock' = NoThread
    /\ Return(t)
    /\ UNCHANGED <<enc_rpi, chan, geom, count, last_time, velocity, active, now,
                   egh>>
    /\ UNCHANGED mvars

\* ---- get_velocity, lines 109-111 (no lock, no state change) ------------
GetVelocityResult == velocity

GetVelocity(t) ==
    /\ epc[t] = "idle"
    /\ UNCHANGED evars
    /\ UNCHANGED mvars

\* ---- reset, lines 118-121 ----------------------------------------------
\* faulty variant: reset() stores nothing
KeepsCount(c) == c
\* the value reset() stores
ResetValue(c) == 0

Sign(i) == IF i < 0 THEN -1 ELSE IF i > 0 THEN 1 ELSE 0

ResetAcquire(t) ==
    /\ epc[t] = "idle"
    /\ CanAcquire(t)
    /\ count_lock' = t
    /\ epc' = [epc EXCEPT ![t] = "reset"]
    /\ UNCHANGED <<enc_rpi, chan, geom, count, last_time, velocity, active, now,
                   eloc, egh>>
    /\ UNCHANGED mvars

\* faulty variant: reset() also zeroes the velocity
ResetStoreClearsVelocity(t) ==
    /\ epc[t] = "reset"
    /\ count' = ResetValue(count)
    /\ velocity' = RatZero
    /\ egh' = [egh EXCEPT !.fwd = 0, !.bwd = 0, !.reset_done = TRUE,
                          !.sign_before_reset = Sign(count)]
    /\ count_lock' = NoThread
    /\ Return(t)
    /\ UNCHANGED <<enc_rpi, chan, geom, last_time, active, now>>
    /\ UNCHANGED mvars

ResetStore(t) ==
    /\ epc[t] = "reset"
    /\ count' = ResetValue(count)
    /\ egh' = [egh EXCEPT !.fwd = 0, !.bwd = 0, !.reset_done = TRUE,
                          !.sign_before_reset = Sign(count)]
    /\ count_lock' = NoThread
    /\ Return(t)
    /\ UNCHANGED <<enc_rpi, chan, geom, last_time, velocity, active, now>>
    /\ UNCHANGED mvars

\* ---- cleanup, lines 137-147 --------------------------------------------
\* faulty variant: cleanup() flips the flag instead of clearing it
ActiveToggled(a) == ~a
\* line 139
ActiveAfterCleanup(a) == FALSE

\* close() of a gpiozero device; closing a closed device is allowed
Closed(st) == IF st = "none" THEN "none" ELSE "closed"

\* a callback between the active check of lines 79-80 and the lock of
\* line 85
BeforeLock(t) == t \in Callbacks /\ epc[t] \in {"time", "dt", "acquire"}

\* faulty variant: cleanup() starts only when the count lock is free
CleanupBeginTakesLock(t) ==
    /\ epc[t] = "idle"
    /\ CanAcquire(t)
    /\ active' = ActiveAfterCleanup(active)
    /\ IF enc_rpi
       THEN /\ epc' = [epc EXCEPT ![t] = "close_a"]
            /\ UNCHANGED egh
       ELSE /\ epc' = [epc EXCEPT ![t] = "idle"]
            /\ egh' = [egh EXCEPT !.detached = TRUE]
    /\ eloc' = [c \in EThreads |->
                 IF BeforeLock(c) THEN [eloc[c] EXCEPT !.inflight = TRUE]
                 ELSE eloc[c]]
    /\ UNCHANGED <<enc_rpi, chan, geom, count, count_lock, last_time, velocity,
                   now>>
    /\ UNCHANGED mvars

\* eloc[c].inflight records that callback c was before the lock when
\* cleanup() was called.
CleanupBegin(t) ==
    /\ epc[t] = "idle"
    /\ active' = ActiveAfterCleanup(active)
    /\ IF enc_rpi
       THEN /\ epc' = [epc EXCEPT ![t] = "close_a"]
            /\ UNCHANGED egh
       ELSE /\ epc' = [epc EXCEPT ![t] = "idle"]
            /\ egh' = [egh EXCEPT !.detached = TRUE]
    /\ eloc' = [c \in EThreads |->
                 IF BeforeLock(c) THEN [eloc[c] EXCEPT !.inflight = TRUE]
                 ELSE eloc[c]]
    /\ UNCHANGED <<enc_rpi, chan, geom, count, count_lock, last_time, velocity,
                   now>>
    /\ UNCHANGED mvars

\* lines 142-143
CleanupCloseA(t) ==
    /\ epc[t] = "close_a"
    /\ chan' = [chan EXCEPT !["a"] = Closed(@)]
    /\ epc' = [epc EXCEPT ![t] = "close_b"]
    /\ UNCHANGED <<enc_rpi, geom, count, count_lock, last_time, velocity, active,
                   now, eloc, egh>>
    /\ UNCHANGED mvars

\* lines 144-145, and the return
CleanupCloseB(t) ==
    /\ epc[t] = "close_b"
    /\ chan' = [chan EXCEPT !["b"] = Closed(@)]
    /\ epc' = [epc EXCEPT ![t] = "idle"]
    /\ egh' = [egh EXCEPT !.detached = TRUE]
    /\ UNCHANGED <<enc_rpi, geom, count, count_lock, last_time, velocity, active,
                   now, eloc>>
    /\ UNCHANGED mvars

\* ---- environment -------------------------------------------------------
\* One millisecond passes.
Tick ==
    /\ now < MaxTime
    /\ now' = now + 1
    /\ UNCHANGED <<enc_rpi, chan, geom, count, count_lock, last_time, velocity,
                   active, epc, eloc, egh>>
    /\ UNCHANGED mvars

EncNext ==
    \/ \E t \in Callbacks :
          \/ EdgeDelivered(t)
          \/ EdgeCheckActive(t)
          \/ EdgeReadClock(t)
          \/ EdgeElapsed(t)
          \/ EdgeAcquire(t)
          \/ EdgeReadA(t)
          \/ EdgeReadB(t)
          \/ EdgeLoadCount(t)
          \/ EdgeStoreCount(t)
          \/ EdgeVelocity(t)
          \/ EdgeStamp(t)
    \/ \E t \in Users :
          \/ GetCountAcquire(t)
          \/ GetCountReturn(t)
          \/ GetDistanceAcquire(t)
          \/ GetDistanceReturn(t)
          \/ GetVelocity(t)
          \/ ResetAcquire(t)
          \/ ResetStore(t)
          \/ CleanupBegin(t)
          \/ CleanupCloseA(t)
          \/ CleanupCloseB(t)
    \/ Tick


\* ===================================================================
\*                    L298NMotorDriver  (motors.py)
\* ===================================================================

Drivers == {"main"}
\* the threads of the run in which two threads call drive_tank
TankCallers == {"main", "second"}
MotorThreads == Drivers \cup TankCallers
Sides == {"left", "right"}
\* the six gpiozero devices, in the order setup_gpio creates them
SetupOrder == <<"left_pwm", "left_in1", "left_in2",
                "right_pwm", "right_in1", "right_in2">>
\* ... and in the order cleanup closes them
CloseOrder == <<"left_pwm", "right_pwm", "left_in1", "left_in2",
                "right_in1", "right_in2">>
Devices == {SetupOrder[i] : i \in 1..Len(SetupOrder)}

\* Arguments the callers pass.
ArcadeInputs == {Rat(-1, 1), Rat(0, 1), Rat(1, 2), Rat(1, 1)}
TankInputs == {Rat(-3, 2), Rat(-1, 2), Rat(0, 1), Rat(1, 1)}
SpeedInputs == {Rat(-1, 2), Rat(0, 1), Rat(3, 2)}
MotorTokens == {"left", "right", "middle"}
DirectionTokens == {"forward", "backward", "stop", "spin"}

NoCall == [motor |-> "", speed |-> RatZero, direction |-> ""]
NoOp == [op |-> "none", a1 |-> RatZero, a2 |-> RatZero, motor |-> "",
         direction |-> "", tank |-> <<>>, made |-> <<>>, raised |-> "none",
         reports |-> 0, writes |-> <<>>, closing |-> 0, done |-> TRUE,
         moving_before |-> FALSE, repeats |-> FALSE]

\* __init__ and setup_gpio, lines 21-61: created = number of devices that
\* were created before setup_gpio raised (6 = none raised).
MotorConstructed(rpi, created) ==
    /\ mot_rpi = rpi
    /\ initialized = (rpi /\ created = Len(SetupOrder))
    /\ dev = [d \in Devices |->
                IF \E i \in 1..created : SetupOrder[i] = d THEN "open" ELSE "none"]
    /\ pin = [sd \in Sides |-> [in1 |-> FALSE, in2 |-> FALSE]]
    /\ duty = [sd \in Sides |-> RatZero]
    /\ mpc = [t \in MotorThreads |-> "idle"]
    /\ mcall = [t \in MotorThreads |-> NoCall]
    /\ mtodo = [t \in MotorThreads |-> <<>>]
    /\ mgh = [t \in MotorThreads |-> NoOp]

MotInit ==
    \E rpi \in BOOLEAN, created \in 0..Len(SetupOrder) :
       /\ ~rpi => created = 0
       /\ MotorConstructed(rpi, created)

\* ---- pure parts --------------------------------------------------------
\* faulty variant: clamps to [-1, 1] without abs()
ClampKeepsSign(speed) == RatMax(RatNeg(RatOne), RatMin(RatOne, speed))
\* line 75: max(0.0, min(1.0, abs(speed)))
Clamp(speed) == RatMax(RatZero, RatMin(RatOne, RatAbs(speed)))

\* faulty variant: ">= 0" instead of "> 0"
TankCallZeroIsForward(side, speed) ==
    IF RatLE(RatZero, speed)
    THEN [motor |-> side, speed |-> speed, direction |-> "forward"]
    ELSE [motor |-> side, speed |-> RatAbs(speed), direction |-> "backward"]
\* lines 113-118 / 121-126: the set_motor_speed call made for one side
TankCall(side, speed) ==
    IF RatLT(RatZero, speed)
    THEN [motor |-> side, speed |-> speed, direction |-> "forward"]
    ELSE IF RatLT(speed, RatZero)
         THEN [motor |-> side, speed |-> RatAbs(speed), direction |-> "backward"]
         ELSE [motor |-> side, speed |-> RatZero, direction |-> "stop"]

\* lines 112-126: left first, then right
TankCalls(left_speed, right_speed) ==
    <<TankCall("left", left_speed), TankCall("right", right_speed)>>

\* faulty variant: each side is clamped on its own
ArcadeMixClampsEach(forward_speed, turn_rate) ==
    <<ClampKeepsSign(RatAdd(forward_speed, turn_rate)),
      ClampKeepsSign(RatSub(forward_speed, turn_rate))>>
\* lines 137-144: the pair handed to drive_tank
ArcadeMix(forward_speed, turn_rate) ==
    LET left_speed == RatAdd(forward_speed, turn_rate)
        right_speed == RatSub(forward_speed, turn_rate)
        max_speed == RatMax(RatAbs(left_speed), RatAbs(right_speed))
    IN  IF RatLT(RatOne, max_speed)
        THEN <<RatDiv(left_speed, max_speed), RatDiv(right_speed, max_speed)>>
        ELSE <<left_speed, right_speed>>

\* lines 77-82: every token other than 'left' selects the right motor
SideOf(motor) == IF motor = "left" THEN "left" ELSE "right"

\* lines 89-97: level written to in1 / in2
In1For(direction) == direction = "forward"
In2For(direction) == direction = "backward"

\* faulty variant: the stop branch leaves the duty as the last call set it
DutyKeptOnStop(speed, direction) ==
    IF direction \in {"forward", "backward"}
    THEN speed ELSE duty[mcall["main"].motor]
\* lines 95-98 and 102: the value written to the PWM device
DutyFor(speed, direction) ==
    IF direction \in {"forward", "backward"} THEN speed ELSE RatZero

\* ---- entering the operations -------------------------------------------
Begin(t, op, calls) ==
    /\ mgh' = [mgh EXCEPT ![t] =
                 [op EXCEPT !.moving_before =
                               \E sd \in Sides : duty[sd] # RatZero,
                            !.repeats =
                               /\ mgh[t].op = op.op
                               /\ mgh[t].a1 = op.a1
                               /\ mgh[t].a2 = op.a2
                               /\ mgh[t].raised = "none"]]
    /\ mtodo' = [mtodo EXCEPT ![t] = calls]
    /\ mpc' = [mpc EXCEPT ![t] = "enter"]
    /\ UNCHANGED <<mot_rpi, initialized, dev, pin, duty, mcall>>
    /\ UNCHANGED evars

CallSetMotorSpeed(t) ==
    /\ mpc[t] = "idle"
    /\ \E m \in MotorTokens, s \in SpeedInputs, d \in DirectionTokens :
          Begin(t, [NoOp EXCEPT !.op = "set_motor_speed", !.motor = m,
                                !.a1 = s, !.direction = d, !.done = FALSE],
                <<[motor |-> m, speed |-> s, direction |-> d]>>)

\* lines 104-126
CallDriveTank(t) ==
    /\ mpc[t] = "idle"
    /\ \E l \in TankInputs, r \in TankInputs :
          Begin(t, [NoOp EXCEPT !.op = "drive_tank", !.a1 = l, !.a2 = r,
                                !.tank = <<l, r>>, !.done = FALSE],
                TankCalls(l, r))

\* lines 128-146
CallDriveArcade(t) ==
    /\ mpc[t] = "idle"
    /\ \E f \in ArcadeInputs, r \in ArcadeInputs :
          LET mixed == ArcadeMix(f, r)
          IN  Begin(t, [NoOp EXCEPT !.op = "drive_arcade", !.a1 = f, !.a2 = r,
                                    !.tank = mixed, !.done = FALSE],
                    TankCalls(mixed[1], mixed[2]))

\* line 150: the arguments stop() hands to drive_tank
StopArgs == <<RatZero, RatZero>>

\* lines 148-150
CallStop(t) ==
    /\ mpc[t] = "idle"
    /\ Begin(t, [NoOp EXCEPT !.op = "stop", !.tank = StopArgs, !.done = FALSE],
             TankCalls(StopArgs[1], StopArgs[2]))

\* lines 164-167: cleanup does something only on an initialized driver,
\* and begins with stop()
CallCleanup(t) ==
    /\ mpc[t] = "idle"
    /\ IF initialized
       THEN Begin(t, [NoOp EXCEPT !.op = "cleanup", !.tank = StopArgs,
                                  !.done = FALSE],
                  TankCalls(StopArgs[1], StopArgs[2]))
       ELSE /\ mgh' = [mgh EXCEPT ![t] = [NoOp EXCEPT !.op = "cleanup"]]
            /\ UNCHANGED <<mot_rpi, initialized, dev, pin, duty, mpc, mcall,
                           mtodo>>
            /\ UNCHANGED evars

\* ---- set_motor_speed, lines 63-102 -------------------------------------
\* An exception leaves set_motor_speed and every caller above it.  h is the
\* history to keep.
Raise(t, h, exc) ==
    /\ mgh' = [mgh EXCEPT ![t] = [h EXCEPT !.raised = exc, !.done = TRUE]]
    /\ mtodo' = [mtodo EXCEPT ![t] = <<>>]
    /\ mcall' = [mcall EXCEPT ![t] = NoCall]
    /\ mpc' = [mpc EXCEPT ![t] = "idle"]

\* set_motor_speed returns: the caller makes its next call, closes the
\* devices (cleanup) or returns itself.  h is the history to keep.
ReturnFromCall(t, h) ==
    /\ mcall' = [mcall EXCEPT ![t] = NoCall]
    /\ mtodo' = [mtodo EXCEPT ![t] = Tail(@)]
    /\ IF Len(mtodo[t]) > 1
       THEN /\ mpc' = [mpc EXCEPT ![t] = "enter"]
            /\ mgh' = [mgh EXCEPT ![t] = h]
       ELSE IF h.op = "cleanup"
            THEN /\ mpc' = [mpc EXCEPT ![t] = "close"]
                 /\ mgh' = [mgh EXCEPT ![t] = [h EXCEPT !.closing = 1]]
            ELSE /\ mpc' = [mpc EXCEPT ![t] = "idle"]
                 /\ mgh' = [mgh EXCEPT ![t] = [h EXCEPT !.done = TRUE]]

\* lines 53-56: left_dir_pins / right_dir_pins exist exactly when setup_gpio
\* ran to its end
HasDirPins == initialized

SetMotorSpeedEnter(t) ==
    /\ mpc[t] = "enter"
    /\ LET c == Head(mtodo[t])
           h == [mgh[t] EXCEPT !.made = Append(@, c)]
       IN  IF ~initialized /\ mot_rpi
           THEN \* lines 72-73
                /\ ReturnFromCall(t, h)
                /\ UNCHANGED <<mot_rpi, initialized, dev, pin, duty>>
           ELSE IF ~HasDirPins
           THEN \* lines 79/82: self.left_dir_pins does not exist
                /\ Raise(t, h, "AttributeError")
                /\ UNCHANGED <<mot_rpi, initialized, dev, pin, duty>>
           ELSE IF ~mot_rpi
           THEN \* lines 84-86
                /\ ReturnFromCall(t, [h EXCEPT !.reports = @ + 1])
                /\ UNCHANGED <<mot_rpi, initialized, dev, pin, duty>>
           ELSE /\ mcall' = [mcall EXCEPT ![t] =
                               [motor |-> SideOf(c.motor),
                                speed |-> Clamp(c.speed),
                                direction |-> c.direction]]
                /\ mgh' = [mgh EXCEPT ![t] = h]
                /\ mpc' = [mpc EXCEPT ![t] = "in1"]
                /\ UNCHANGED <<mot_rpi, initialized, dev, pin, duty, mtodo>>
    /\ UNCHANGED evars

\* lines 90/93/96: writing a closed gpiozero device raises GPIODeviceClosed
WriteIn1(t) ==
    /\ mpc[t] = "in1"
    /\ LET sd == mcall[t].motor
           d == IF sd = "left" THEN "left_in1" ELSE "right_in1"
       IN  IF dev[d] = "open"
           THEN /\ pin' = [pin EXCEPT ![sd].in1 = In1For(mcall[t].direction)]
                /\ mgh' = [mgh EXCEPT ![t].writes = Append(@, d)]
                /\ mpc' = [mpc EXCEPT ![t] = "in2"]
                /\ UNCHANGED <<mcall, mtodo>>
           ELSE /\ Raise(t, mgh[t], "GPIODeviceClosed")
                /\ UNCHANGED pin
    /\ UNCHANGED <<mot_rpi, initialized, dev, duty>>
    /\ UNCHANGED evars

\* lines 91/94/97
WriteIn2(t) ==
    /\ mpc[t] = "in2"
    /\ LET sd == mcall[t].motor
           d == IF sd = "left" THEN "left_in2" ELSE "right_in2"
       IN  IF dev[d] = "open"
           THEN /\ pin' = [pin EXCEPT ![sd].in2 = In2For(mcall[t].direction)]
                /\ mgh' = [mgh EXCEPT ![t].writes = Append(@, d)]
                /\ mpc' = [mpc EXCEPT ![t] = "pwm"]
                /\ UNCHANGED <<mcall, mtodo>>
           ELSE /\ Raise(t, mgh[t], "GPIODeviceClosed")
                /\ UNCHANGED pin
    /\ UNCHANGED <<mot_rpi, initialized, dev, duty>>
    /\ UNCHANGED evars

\* lines 98 and 101-102
WritePwm(t) ==
    /\ mpc[t] = "pwm"
    /\ LET sd == mcall[t].motor
           d == IF sd = "left" THEN "left_pwm" ELSE "right_pwm"
       IN  IF dev[d] = "none"
           THEN /\ ReturnFromCall(t, mgh[t])
                /\ UNCHANGED duty
           ELSE IF dev[d] = "open"
           THEN /\ duty' = [duty EXCEPT ![sd] =
                              DutyFor(mcall[t].speed, mcall[t].direction)]
                /\ ReturnFromCall(t, [mgh[t] EXCEPT !.writes = Append(@, d)])
           ELSE /\ Raise(t, mgh[t], "GPIODeviceClosed")
                /\ UNCHANGED duty
    /\ UNCHANGED <<mot_rpi, initialized, dev, pin>>
    /\ UNCHANGED evars

\* lines 168-181: one device is closed per step, then cleanup returns
CleanupClose(t) ==
    /\ mpc[t] = "close"
    /\ LET k == mgh[t].closing
       IN  /\ dev' = [dev EXCEPT ![CloseOrder[k]] = Closed(@)]
           /\ IF k < Len(CloseOrder)
              THEN /\ mgh' = [mgh EXCEPT ![t].closing = k + 1]
                   /\ UNCHANGED mpc
              ELSE /\ mgh' = [mgh EXCEPT ![t].closing = 0, ![t].done = TRUE]
                   /\ mpc' = [mpc EXCEPT ![t] = "idle"]
    /\ UNCHANGED <<mot_rpi, initialized, pin, duty, mcall, mtodo>>
    /\ UNCHANGED evars

MotNext ==
    \E t \in Drivers :
       \/ CallSetMotorSpeed(t)
       \/ CallDriveTank(t)
       \/ CallDriveArcade(t)
       \/ CallStop(t)
       \/ CallCleanup(t)
       \/ SetMotorSpeedEnter(t)
       \/ WriteIn1(t)
       \/ WriteIn2(t)
       \/ WritePwm(t)
       \/ CleanupClose(t)

\* ---- the two specifications --------------------------------------------
\* The encoder with its callbacks, beside a driver that is not used.
InitEncoder ==
    /\ EncInit
    /\ MotorConstructed(FALSE, 0)

SpecEncoder == InitEncoder /\ [][EncNext]_vars

\* The motor driver, beside an encoder that is not used.
InitMotor ==
    /\ MotInit
    /\ EncoderConstructed("noimport", 11, Rat(4, 1), Rat(1, 1))

SpecMotor == InitMotor /\ [][MotNext]_vars

\* ---- construction with any wheel diameter ------------------------------
\* wheel diameters a caller can pass: the default, zero and a negative one
AnyDiameters == {Rat(4, 1), RatZero, Rat(-5, 2)}

\* lines 34-39: __init__ stores its arguments as they come; no value of
\* them makes it raise
ArgumentsRejected(ppr, wd, gr) == FALSE

InitAnyDiameter ==
    /\ \E setup \in EncoderSetups, wd \in AnyDiameters :
          /\ ~ArgumentsRejected(11, wd, RatOne)
          /\ EncoderConstructed(setup, 11, wd, RatOne)
    /\ MotorConstructed(FALSE, 0)

\* the encoder operations with one callback context
EncNextOneCallback ==
    \/ EdgeDelivered("cb1")
    \/ EdgeCheckActive("cb1")
    \/ EdgeReadClock("cb1")
    \/ EdgeElapsed("cb1")
    \/ EdgeAcquire("cb1")
    \/ EdgeReadA("cb1")
    \/ EdgeReadB("cb1")
    \/ EdgeLoadCount("cb1")
    \/ EdgeStoreCount("cb1")
    \/ EdgeVelocity("cb1")
    \/ EdgeStamp("cb1")
    \/ \E t \in Users :
          \/ GetCountAcquire(t)
          \/ GetCountReturn(t)
          \/ GetDistanceAcquire(t)
          \/ GetDistanceReturn(t)
          \/ GetVelocity(t)
          \/ ResetAcquire(t)
          \/ ResetStore(t)
          \/ CleanupBegin(t)
          \/ CleanupCloseA(t)
          \/ CleanupCloseB(t)
    \/ Tick

\* One encoder constructed with any wheel diameter, driven by one callback
\* context and one API user.
SpecAnyDiameter == InitAnyDiameter /\ [][EncNextOneCallback]_vars

\* ---- two threads calling drive_tank ------------------------------------
\* wheel speeds the two threads command
ConcurrentTankInputs == {Rat(-1, 2), RatOne}

\* lines 104-126, called by one of the two threads
ConcurrentDriveTank(t) ==
    /\ mpc[t] = "idle"
    /\ \E l \in ConcurrentTankInputs, r \in ConcurrentTankInputs :
          Begin(t, [NoOp EXCEPT !.op = "drive_tank", !.a1 = l, !.a2 = r,
                                !.tank = <<l, r>>, !.done = FALSE],
                TankCalls(l, r))

InitTwoCallers ==
    /\ MotorConstructed(TRUE, Len(SetupOrder))
    /\ EncoderConstructed("noimport", 11, Rat(4, 1), Rat(1, 1))

TwoCallersNext ==
    \E t \in TankCallers :
       \/ ConcurrentDriveTank(t)
       \/ SetMotorSpeedEnter(t)
       \/ WriteIn1(t)
       \/ WriteIn2(t)
       \/ WritePwm(t)

\* An initialized driver on which two threads call drive_tank with no
\* synchronization between them (the driver has none).
SpecTwoCallers == InitTwoCallers /\ [][TwoCallersNext]_vars

\* ===================================================================
\*                          Properties
\* ===================================================================

\* ---- C1 ----------------------------------------------------------------
\* C1: every edge that an active encoder processes changes pulse_count by
\* exactly +1 when the levels it samples on channel A and channel B are
\* equal and by exactly -1 when they differ; no callback step other than
\* that store changes the count.
C1_EdgeCountsByOne ==
    [][\A t \in Callbacks :
          /\ (epc[t] = "store" /\ epc'[t] = "vel") =>
                count' = count + (IF eloc[t].pin_a_state = eloc[t].pin_b_state
                                  THEN 1 ELSE -1)
          /\ (epc'[t] # epc[t] /\ ~(epc[t] = "store" /\ epc'[t] = "vel")) =>
                count' = count]_vars

\* one edge was counted forward and one backward
C1_Witness ==
    /\ active
    /\ egh.fwd = 1
    /\ egh.bwd = 1
    /\ count = 0

\* ---- C2 ----------------------------------------------------------------
\* C2: with edge callbacks running concurrently, the value get_count() is
\* about to return equals (forward edges applied) - (backward edges
\* applied), and so does the count once every callback has finished: no
\* update is lost and no read sees anything else.
C2_NoLostUpdate ==
    /\ \A t \in Users :
          epc[t] = "get_count" => GetCountResult = egh.fwd - egh.bwd
    /\ (\A t \in Callbacks : epc[t] = "idle") => count = egh.fwd - egh.bwd

\* a reader holds the lock after one edge was applied while the other
\* callback waits for the lock
C2_Witness ==
    /\ epc["user"] = "get_count"
    /\ egh.fwd + egh.bwd = 1
    /\ \E t \in Callbacks : epc[t] = "acquire"

\* ---- C3 ----------------------------------------------------------------
\* C3: an edge callback delivered after cleanup() has returned stops at the
\* active-flag check and its steps change neither pulse_count nor velocity
\* nor the last-edge timestamp (nor does it take the lock).
C3_LateEdgeIsNoOp ==
    [][\A t \in Callbacks :
          eloc[t].late =>
             /\ epc[t] \in {"idle", "check"}
             /\ epc'[t] # epc[t] =>
                   UNCHANGED <<count, velocity, last_time, count_lock>>]_vars

\* a late callback sits at the check of an encoder that counted before
C3_Witness ==
    /\ enc_rpi
    /\ egh.detached
    /\ egh.fwd + egh.bwd > 0
    /\ \E t \in Callbacks : eloc[t].late /\ epc[t] = "check"

\* ---- C4 ----------------------------------------------------------------
\* C4: get_count() after reset(), with no edge applied in between, returns
\* 0 whatever the count was before the reset.
C4_ResetThenCountIsZero ==
    \A t \in Users :
       (epc[t] = "get_count" /\ egh.reset_done /\ egh.fwd = 0 /\ egh.bwd = 0)
          => GetCountResult = 0

\* get_count runs after a reset of a negative count
C4_Witness ==
    /\ epc["user"] = "get_count"
    /\ egh.reset_done
    /\ egh.fwd = 0
    /\ egh.bwd = 0
    /\ egh.sign_before_reset = -1

\* ---- C5 ----------------------------------------------------------------
\* C5: get_distance() returns (count / ppr) * (pi * wheel_diameter) for the
\* count held when the lock was taken, for every signed count, and
\* gear_ratio plays no part in it.
C5_DistanceFormula ==
    \A t \in Users :
       epc[t] = "get_distance" =>
          LET r == GetDistanceResult
              n == eloc[t].at_lock
          IN  /\ r[2] > 0
              /\ r[1] * geom.ppr * geom.wheel_diameter[2]
                    = n * geom.wheel_diameter[1] * r[2]

\* the distance of a negative count on an encoder with a gearbox
C5_Witness ==
    /\ epc["user"] = "get_distance"
    /\ eloc["user"].at_lock < 0
    /\ geom.gear_ratio # RatOne
    /\ GetDistanceResult = Rat(eloc["user"].at_lock * 5, 40)

\* ---- C6 ----------------------------------------------------------------
\* C6: drive_arcade(forward, turn) hands drive_tank the pair
\* (forward + turn, forward - turn), divided by the larger magnitude when
\* that exceeds 1: both magnitudes are at most 1, signs and the left:right
\* ratio are those of the unnormalized pair, the larger magnitude is exactly
\* 1 after a normalization, (1, 1) gives (1, 0), and a pair within range is
\* passed through unchanged.
C6_ArcadeNormalizes ==
    \A t \in Drivers :
       mgh[t].op = "drive_arcade" =>
          LET left == RatAdd(mgh[t].a1, mgh[t].a2)
              right == RatSub(mgh[t].a1, mgh[t].a2)
              big == RatMax(RatAbs(left), RatAbs(right))
              l == mgh[t].tank[1]
              r == mgh[t].tank[2]
          IN  /\ Len(mgh[t].tank) = 2
              /\ RatLE(RatAbs(l), RatOne) /\ RatLE(RatAbs(r), RatOne)
              /\ Sign(l[1]) = Sign(left[1]) /\ Sign(r[1]) = Sign(right[1])
              /\ RatMul(l, right) = RatMul(r, left)
              /\ RatLT(RatOne, big) =>
                    /\ RatMax(RatAbs(l), RatAbs(r)) = RatOne
                    /\ RatMul(l, big) = left /\ RatMul(r, big) = right
              /\ RatLE(big, RatOne) => (l = left /\ r = right)
              /\ (mgh[t].a1 = RatOne /\ mgh[t].a2 = RatOne) =>
                    (l = RatOne /\ r = RatZero)

\* drive_arcade(1, 1/2): (3/2, 1/2) became (1, 1/3) and reached both motors
C6_Witness ==
    /\ initialized
    /\ mgh["main"].op = "drive_arcade"
    /\ mgh["main"].done
    /\ mgh["main"].a1 = Rat(1, 1)
    /\ mgh["main"].a2 = Rat(1, 2)
    /\ mgh["main"].tank = <<Rat(1, 1), Rat(1, 3)>>
    /\ duty = [sd \in Sides |-> IF sd = "left" THEN Rat(1, 1) ELSE Rat(1, 3)]

\* ---- C7 ----------------------------------------------------------------
IsStopCommand(h) ==
    \/ h.op = "stop"
    \/ h.op \in {"drive_arcade", "drive_tank"} /\ h.a1 = RatZero /\ h.a2 = RatZero

\* C7: stop(), drive_arcade(0, 0) and drive_tank(0, 0) are the same
\* command: each hands (0, 0) to drive_tank, and when it has finished both
\* direction pins of both sides are off and both duty cycles are 0,
\* whatever the motors did before.
C7_StopIsTankZero ==
    \A t \in Drivers :
       IsStopCommand(mgh[t]) =>
          /\ mgh[t].tank = <<RatZero, RatZero>>
          /\ mgh[t].done =>
                \A sd \in Sides :
                   /\ ~pin[sd].in1
                   /\ ~pin[sd].in2
                   /\ duty[sd] = RatZero

\* stop() has stopped motors that were running
C7_Witness ==
    /\ mgh["main"].op = "stop"
    /\ mgh["main"].done
    /\ mgh["main"].moving_before
    /\ Len(mgh["main"].writes) = 6

\* ---- C8 ----------------------------------------------------------------
PwmOf(side) == IF side = "left" THEN "left_pwm" ELSE "right_pwm"

Wrote(h, d) == \E i \in 1..Len(h.writes) : h.writes[i] = d

\* C8: the duty set_motor_speed(side, speed, direction) writes is
\* min(1, |speed|) for forward and backward, with the direction pins set
\* from the direction argument alone, and 0 for stop (and for every other
\* token), whatever the speed.
C8_DutyIsClampedMagnitude ==
    \A t \in Drivers :
       LET h == mgh[t]
           sd == IF h.motor = "left" THEN "left" ELSE "right"
           mag == IF h.a1[1] < 0 THEN <<-h.a1[1], h.a1[2]>> ELSE h.a1
           capped == IF mag[1] > mag[2] THEN RatOne ELSE mag
       IN  (h.op = "set_motor_speed" /\ h.done /\ Wrote(h, PwmOf(sd))) =>
              /\ h.direction = "forward" =>
                    (duty[sd] = capped /\ pin[sd].in1 /\ ~pin[sd].in2)
              /\ h.direction = "backward" =>
                    (duty[sd] = capped /\ ~pin[sd].in1 /\ pin[sd].in2)
              /\ h.direction \notin {"forward", "backward"} =>
                    (duty[sd] = RatZero /\ ~pin[sd].in1 /\ ~pin[sd].in2)

\* set_motor_speed('left', -0.5, 'forward') ran forward at duty 0.5
C8_Witness ==
    /\ mgh["main"].op = "set_motor_speed"
    /\ mgh["main"].done
    /\ mgh["main"].motor = "left"
    /\ mgh["main"].a1 = Rat(-1, 2)
    /\ mgh["main"].direction = "forward"
    /\ Wrote(mgh["main"], "left_pwm")
    /\ duty["left"] = Rat(1, 2)
    /\ pin["left"].in1

\* ---- C9 ----------------------------------------------------------------
ExpectedTankCall(side, speed) ==
    [motor |-> side,
     speed |-> IF speed[1] < 0 THEN <<-speed[1], speed[2]>> ELSE speed,
     direction |-> IF speed[1] > 0 THEN "forward"
                   ELSE IF speed[1] < 0 THEN "backward" ELSE "stop"]

\* C9: a finished drive_tank(left_speed, right_speed) has called
\* set_motor_speed exactly once for the left side and exactly once for the
\* right side, each with forward / backward / stop chosen by the sign of
\* that side's speed and with its magnitude.
C9_TankCallsOncePerSide ==
    \A t \in Drivers :
       (mgh[t].op = "drive_tank" /\ mgh[t].done) =>
          mgh[t].made = <<ExpectedTankCall("left", mgh[t].a1),
                          ExpectedTankCall("right", mgh[t].a2)>>

\* ---- C10 ---------------------------------------------------------------
MixerOps == {"set_motor_speed", "drive_tank", "drive_arcade", "stop"}

\* C10: without the hardware abstraction (gpiozero missing, or setup_gpio
\* failed) a finished mixer operation has written no device, has reported
\* the intended action and has not raised.
C10_DegradedModeLogsOnly ==
    \A t \in Drivers :
       (~(mot_rpi /\ initialized) /\ mgh[t].op \in MixerOps /\ mgh[t].done) =>
          /\ mgh[t].raised = "none"
          /\ mgh[t].writes = <<>>
          /\ mgh[t].reports > 0

\* ---- C11 ---------------------------------------------------------------
\* the encoder was constructed without gpiozero, or setup_gpio failed on one
\* of the two channels (channel B is created last and never created later)
ConstructedDegraded == ~enc_rpi \/ chan["b"] = "none"

\* C11: an encoder constructed without the GPIO library, or whose setup
\* failed, is inactive and stays so: after any edge callbacks, reset(),
\* cleanup() and queries, no callback gets past the active check, and
\* get_count(), get_distance() and get_velocity() return 0; a query that
\* has taken the lock returns (nothing it executes can raise).
C11_DegradedEncoderReadsZero ==
    ConstructedDegraded =>
       /\ ~active
       /\ \A t \in Callbacks : epc[t] \in {"idle", "check"}
       /\ GetCountResult = 0
       /\ GetDistanceResult = RatZero
       /\ GetVelocityResult = RatZero
       /\ geom.ppr # 0
       /\ \A t \in Users : epc[t] \in {"get_count", "get_distance"} =>
                              count_lock = t

\* setup failed on channel B; an edge callback has run, reset() and
\* cleanup() have returned and get_distance() is being answered
C11_Witness ==
    /\ enc_rpi
    /\ chan["a"] = "closed"
    /\ chan["b"] = "none"
    /\ egh.delivered = MaxEdges
    /\ \A t \in Callbacks : epc[t] = "idle"
    /\ egh.reset_done
    /\ egh.detached
    /\ epc["user"] = "get_distance"
    /\ GetDistanceResult = RatZero

\* ---- C12 ---------------------------------------------------------------
OutOfRange(x) == RatLT(x, RatNeg(RatOne)) \/ RatLT(RatOne, x)

\* the call carried a speed outside [-1, 1] or an unknown side or
\* direction token
InvalidInput(h) ==
    \/ /\ h.op = "set_motor_speed"
       /\ \/ OutOfRange(h.a1)
          \/ h.motor \notin {"left", "right"}
          \/ h.direction \notin {"forward", "backward", "stop"}
    \/ /\ h.op = "drive_tank"
       /\ (OutOfRange(h.a1) \/ OutOfRange(h.a2))

\* C12: a set_motor_speed or drive_tank call with an out-of-range speed or
\* an unknown side / direction token finishes without raising, and leaves
\* every duty in [0, 1] and each side's direction pins in one of the three
\* patterns forward (in1 only), backward (in2 only), stop (neither).
C12_InvalidInputNormalized ==
    \A t \in Drivers :
       (InvalidInput(mgh[t]) /\ mgh[t].done) =>
          /\ mgh[t].raised = "none"
          /\ \A sd \in Sides :
                /\ RatLE(RatZero, duty[sd]) /\ RatLE(duty[sd], RatOne)
                /\ ~(pin[sd].in1 /\ pin[sd].in2)

\* ---- C13 ---------------------------------------------------------------
\* C13: constructing an encoder with a zero or negative wheel diameter is
\* fatal, so no encoder object exists with such a diameter: every
\* constructed encoder, in every state, has a positive wheel diameter
\* (missing hardware and a failed pin claim still give an object).
C13_NonPositiveDiameterIsFatal == RatLT(RatZero, geom.wheel_diameter)

\* ---- C14 ---------------------------------------------------------------
\* the two wheel speeds a command stands for, from its arguments alone
WheelSpeeds(h) ==
    IF h.op = "drive_tank" THEN <<h.a1, h.a2>>
    ELSE IF h.op = "drive_arcade" THEN ArcadeMix(h.a1, h.a2)
    ELSE StopArgs

\* the state of one wheel's pins and duty for a wheel speed
WheelState(x) ==
    [in1 |-> x[1] > 0, in2 |-> x[1] < 0,
     duty |-> IF Abs(x[1]) > x[2] THEN RatOne ELSE <<Abs(x[1]), x[2]>>]

\* C14: after drive_tank, drive_arcade or stop has returned on an
\* initialized driver, the direction pins and the duty of both wheels are
\* the values its arguments determine, whatever was commanded before; so
\* a command issued twice leaves what it leaves when issued once.
C14_MixerIsStateless ==
    \A t \in Drivers :
       LET h == mgh[t]
           w == WheelSpeeds(h)
       IN  (/\ initialized
            /\ h.op \in {"drive_tank", "drive_arcade", "stop"}
            /\ h.done
            /\ h.raised = "none") =>
              /\ [in1 |-> pin["left"].in1, in2 |-> pin["left"].in2,
                  duty |-> duty["left"]] = WheelState(w[1])
              /\ [in1 |-> pin["right"].in1, in2 |-> pin["right"].in2,
                  duty |-> duty["right"]] = WheelState(w[2])

\* drive_tank(-1.5, 1) has returned for the second time in a row, while
\* the wheels were already turning
C14_Witness ==
    /\ initialized
    /\ mgh["main"].op = "drive_tank"
    /\ mgh["main"].a1 = Rat(-3, 2)
    /\ mgh["main"].a2 = RatOne
    /\ mgh["main"].done
    /\ mgh["main"].raised = "none"
    /\ mgh["main"].repeats
    /\ mgh["main"].moving_before
    /\ pin["left"].in2
    /\ duty["left"] = RatOne

\* ---- C15 ---------------------------------------------------------------
\* C15: a callback that had passed the active check and had not yet taken
\* the count lock when cleanup() was called does nothing: once cleanup()
\* has returned, no step of that callback changes pulse_count.
C15_InFlightEdgeIsNoOp ==
    [][\A t \in Callbacks :
          (eloc[t].inflight /\ egh.detached /\ epc'[t] # epc[t]) =>
             count' = count]_vars

\* ---- C16 ---------------------------------------------------------------
\* the positions inside a `with self.count_lock:` block
LockedPcs == {"read_a", "read_b", "load", "store", "vel",
              "get_count", "get_distance", "reset"}

\* the positions at which a thread reads or writes pulse_count
CountAccessPcs == {"load", "store", "get_count", "get_distance", "reset"}

C16_OneHolder ==
    /\ \A t \in EThreads : (epc[t] \in LockedPcs) <=> (count_lock = t)
    /\ \A t \in EThreads : epc[t] \in CountAccessPcs => count_lock = t
    /\ Cardinality({t \in EThreads : epc[t] \in LockedPcs}) <= 1

\* C16: pulse_count is written only by a thread that holds the count lock
\* (an edge callback at its store, or reset()), get_count() and
\* get_distance() (and the callback's own load) read it only while holding
\* the lock, and at most one thread is inside the lock at a time.
C16_CountOnlyUnderLock ==
    /\ []C16_OneHolder
    /\ [][count' # count =>
             \E t \in EThreads : /\ count_lock = t
                                 /\ epc[t] \in {"store", "reset"}
                                 /\ epc'[t] # epc[t]]_vars

\* reset() holds the lock with a non-zero count to clear, a callback waits
\* for the lock
C16_Witness ==
    /\ count_lock = "user"
    /\ epc["user"] = "reset"
    /\ count # 0
    /\ epc["cb1"] = "acquire"

\* ---- C17 ---------------------------------------------------------------
\* C17: in an edge callback the read of the previous timestamp (elapsed
\* time), the write of velocity and the write of the new timestamp are all
\* made while the callback holds the count lock, so that two callbacks
\* never take their elapsed time from the same previous timestamp.
C17_TimestampUnderLock ==
    \A t \in Callbacks :
       epc[t] \in {"dt", "vel", "stamp"} => count_lock = t

\* ---- C18 ---------------------------------------------------------------
\* callback t has taken its timestamp and not yet applied its count update
Pending(t) == epc[t] \in {"dt", "acquire", "read_a", "read_b", "load", "store"}

\* callback t has applied its count update and is still running
Applied(t) == epc[t] \in {"vel", "stamp"}

\* no callback has applied its update while one with an earlier timestamp
\* has still to apply its own
C18_InArrivalOrder ==
    \A t1 \in Callbacks, t2 \in Callbacks :
       ~(/\ Pending(t1)
         /\ Applied(t2)
         /\ eloc[t1].current_time < eloc[t2].current_time)

\* C18: with a clock that never goes back, edges are applied in the order
\* in which their callbacks took their timestamps, and the stored
\* last-edge timestamp never decreases, under every interleaving.
C18_EdgesInOrder ==
    /\ []C18_InArrivalOrder
    /\ [][last_time' >= last_time]_vars

\* ---- C19 ---------------------------------------------------------------
\* (1 / elapsed / ppr) * circumference for an elapsed time of dt ms, in
\* units per second
RecomputedVelocity(dt) ==
    Rat(1000 * geom.wheel_circumference[1],
        dt * geom.ppr * geom.wheel_circumference[2])

\* C19: an edge processed with an elapsed time that does not exceed the
\* 1 ms threshold leaves velocity exactly as it was, an edge processed with
\* a longer elapsed time sets velocity to (1 / elapsed / ppr) x
\* circumference; in both cases the edge's count update of +1 or -1 is made.
C19_VelocityThreshold ==
    [][\A t \in Callbacks :
          /\ (epc[t] = "vel" /\ epc'[t] = "stamp") =>
                velocity' = IF eloc[t].dt > VelocityMinDtMs
                            THEN RecomputedVelocity(eloc[t].dt)
                            ELSE velocity
          /\ (epc[t] = "store" /\ epc'[t] = "vel") =>
                (count' = count + 1 \/ count' = count - 1)]_vars

\* a second edge, with elapsed time 0, has been counted and is about to
\* leave the velocity set by the first edge
C19_Witness ==
    \E t \in Callbacks :
       /\ epc[t] = "vel"
       /\ eloc[t].dt < VelocityMinDtMs
       /\ egh.fwd + egh.bwd = 2
       /\ velocity # RatZero
       /\ count # 0

\* ---- C20 ---------------------------------------------------------------
\* C20: reset() changes pulse_count, to 0, and nothing else: velocity, the
\* last-edge timestamp, the active flag and the geometry are as before it;
\* and in every reachable state the circumference is pi x wheel_diameter.
C20_ResetChangesOnlyCount ==
    /\ [](geom.wheel_circumference = Circumference(geom.wheel_diameter))
    /\ [][\A t \in Users :
             (epc[t] = "reset" /\ epc'[t] # epc[t]) =>
                /\ count' = 0
                /\ UNCHANGED <<velocity, last_time, active, geom, chan,
                               enc_rpi>>]_vars

\* reset() has cleared a non-zero count of an active encoder whose velocity
\* and last-edge timestamp are not their initial values
C20_Witness ==
    /\ egh.reset_done
    /\ egh.sign_before_reset # 0
    /\ count = 0
    /\ epc["user"] = "idle"
    /\ active
    /\ velocity # RatZero
    /\ last_time # 0

\* ---- C21 ---------------------------------------------------------------
\* the step is one of cleanup(): its entry, one of its two closes, or its
\* return on an encoder without gpiozero
CleanupStep ==
    \E t \in Users :
       \/ epc[t] = "idle" /\ epc'[t] = "close_a"
       \/ epc[t] \in {"close_a", "close_b"} /\ epc'[t] # epc[t]
       \/ epc[t] = "idle" /\ epc'[t] = "idle" /\ egh'.detached # egh.detached

\* what one cleanup() leaves: the encoder inactive and no channel open
Detached == ~active /\ \A c \in {"a", "b"} : chan[c] # "open"

\* C21: cleanup() is idempotent.  Whether the encoder was active or never
\* became active, cleanup() leaves it inactive with its channels released,
\* and no step of it changes count or velocity; once one cleanup() has
\* returned the encoder stays in that state, and every step of a further
\* cleanup() leaves the flag and the channels exactly as they are.
C21_CleanupIdempotent ==
    /\ [](egh.detached => Detached)
    /\ [][CleanupStep =>
             /\ UNCHANGED <<count, velocity, last_time, geom, count_lock>>
             /\ ~active'
             /\ (egh.detached => UNCHANGED <<active, chan>>)]_vars

\* a second cleanup() has closed channel A again and is about to close
\* channel B again, on an encoder that had counted and measured a velocity
C21_Witness ==
    /\ egh.detached
    /\ epc["user"] = "close_b"
    /\ chan["a"] = "closed"
    /\ chan["b"] = "closed"
    /\ count # 0
    /\ velocity # RatZero

\* ---- C22 ---------------------------------------------------------------
\* every step of cleanup() can be taken in the state as it is, whoever
\* holds the count lock
C22_CleanupNeverBlocked ==
    \A t \in Users :
       /\ epc[t] = "idle" => ENABLED CleanupBegin(t)
       /\ epc[t] = "close_a" => ENABLED CleanupCloseA(t)
       /\ epc[t] = "close_b" => ENABLED CleanupCloseB(t)

\* C22: cleanup() never waits for the count lock: each of its steps can be
\* taken while an edge callback holds the lock, so it completes however
\* long the callback keeps it; and an edge callback that finds the encoder
\* inactive returns at once, without acquiring the lock.
C22_CleanupNeverWaits ==
    /\ []C22_CleanupNeverBlocked
    /\ [][\A t \in Callbacks :
             (epc[t] = "check" /\ ~active /\ epc'[t] # epc[t]) =>
                /\ epc'[t] = "idle"
                /\ count_lock' = count_lock
                /\ count_lock # t]_vars

\* cleanup() has run from its call to its return while one callback held
\* the lock (it has the lock, has read no pin yet and was not before the
\* lock when cleanup() was called), and another callback is about to find
\* the encoder inactive
C22_Witness ==
    /\ egh.detached
    /\ epc["user"] = "idle"
    /\ count_lock = "cb1"
    /\ epc["cb1"] = "read_a"
    /\ ~eloc["cb1"].inflight
    /\ ~eloc["cb1"].late
    /\ epc["cb2"] = "check"
    /\ ~active

\* ---- C23 ---------------------------------------------------------------
\* the pins and duty of one wheel
Wheel(sd) == [in1 |-> pin[sd].in1, in2 |-> pin[sd].in2, duty |-> duty[sd]]

\* C23: drive calls are atomic towards the hardware: when two threads have
\* called drive_tank and both calls have finished, the pins and duty of
\* both wheels are the ones that one of the two calls, run alone last,
\* leaves.
C23_DriveCallsAtomic ==
    (\A t \in TankCallers :
        mpc[t] = "idle" /\ mgh[t].op = "drive_tank" /\ mgh[t].done) =>
       \E t \in TankCallers :
          /\ Wheel("left") = WheelState(mgh[t].a1)
          /\ Wheel("right") = WheelState(mgh[t].a2)

\* ---- C24 ---------------------------------------------------------------
\* C24: on an initialized driver the two direction pins of a side are never
\* on together, in any reachable state, the states between the single pin
\* writes of set_motor_speed included.
C24_NeverBothOn ==
    initialized => \A sd \in Sides : ~(pin[sd].in1 /\ pin[sd].in2)

\* ---- C25 ---------------------------------------------------------------
\* the device the caller is about to write
NextWrite(t) ==
    IF mpc[t] = "in1" THEN (IF mcall[t].motor = "left" THEN "left_in1" ELSE "right_in1")
    ELSE IF mpc[t] = "in2" THEN (IF mcall[t].motor = "left" THEN "left_in2" ELSE "right_in2")
    ELSE PwmOf(mcall[t].motor)

\* C25: once cleanup() has closed the pin devices no operation writes to a
\* closed device: no caller is ever about to write a device that is closed
\* and no operation is ended by the closed-device error of such a write;
\* and cleanup() closes its first device only after it has written stop
\* (direction pins off, duty 0) to both motors.
C25_NoWriteAfterClose ==
    \A t \in Drivers :
       /\ mpc[t] \in {"in1", "in2", "pwm"} => dev[NextWrite(t)] # "closed"
       /\ mgh[t].raised # "GPIODeviceClosed"
       /\ mpc[t] = "close" =>
             \A sd \in Sides : /\ ~pin[sd].in1 /\ ~pin[sd].in2
                               /\ duty[sd] = RatZero

\* ---- C26 ---------------------------------------------------------------
C26_NonNegative == RatLE(RatZero, velocity)

\* C26: the velocity estimate is never negative: it is 0 at construction
\* and changes only at the velocity step of a processed edge, to a positive
\* value computed from a positive elapsed time, whatever the direction of
\* the edge; reset(), cleanup(), the queries and the passing of time leave
\* it as it is.
C26_VelocityNeverNegative ==
    /\ []C26_NonNegative
    /\ [][velocity' # velocity =>
             \E t \in Callbacks :
                /\ epc[t] = "vel" /\ epc'[t] = "stamp"
                /\ eloc[t].dt > 0
                /\ RatLT(RatZero, velocity')]_vars

====
